---- MODULE Spec2Model ----
(***************************************************************************)
(* windshield-rs: the Render Context (struct State of src/lib.rs) and the  *)
(* event-loop closure of run(), as a state machine.                        *)
(*                                                                         *)
(* The platform (winit) is the environment.  One loop iteration delivers   *)
(* window events, then MainEventsCleared, then at most one RedrawRequested *)
(* for the window (when a redraw was requested), then RedrawEventsCleared. *)
(* ControlFlow::Exit is sticky: the closure may still be called with the   *)
(* rest of the iteration's events, then LoopDestroyed is sent and the      *)
(* process exits.                                                          *)
(***************************************************************************)
EXTENDS Integers, Sequences, FiniteSets, TLC

\* Bounds of the model.
MaxDim == 1          \* window dimensions range over 0..MaxDim
MaxResizes == 2      \* resize calls recorded in one run

\* Exit statuses of the process.
ExitSuccess == 0     \* ControlFlow::Exit
PanicStatus == 101   \* Option/Result::unwrap on None/Err
NotExited == -1

Dim == 0..MaxDim
PhysicalSize == [width : Dim, height : Dim]
\* surface.get_supported_formats(&adapter)[0]
SupportedFormat == "Bgra8UnormSrgb"
SurfaceError == {"Timeout", "Outdated", "Lost", "OutOfMemory"}
RenderResult == {"Ok"} \cup SurfaceError

\* window.id() and the id of a window that is not the program's.
window == "window"
WindowIds == {window, "other"}

VARIABLES
  pc,               \* "start" | "loop" | "exited" | "panicked"
  adapter,          \* "unrequested" | "Some" | "None"
  device,           \* "unrequested" | "Ok" | "Err"
  state,            \* struct State: surface (its applied configuration), config, size
  control_flow,     \* "Poll" | "Exit"
  redraw_requested, \* window.request_redraw() pending
  stage,            \* position of the platform in the loop iteration
  exit_status,      \* status of the process once it has ended
  event,            \* the event the closure was last called with
  rendered,         \* result of state.render() in the last step, "none" if not called
  calls,            \* calls made by the last step, in order
  initial_size,     \* window.inner_size() read by State::new
  resizeLog,        \* arguments of all resize calls so far, in order
  out_of_memory,    \* a render call has returned OutOfMemory
  sinceLost         \* surface configurations applied since the last Lost render

vars == <<pc, adapter, device, state, control_flow, redraw_requested, stage,
          exit_status, event, rendered, calls, initial_size, resizeLog,
          out_of_memory, sinceLost>>

----------------------------------------------------------------------------
\* Helpers

Positive(sz) == sz.width > 0 /\ sz.height > 0
ConfigSize(cfg) == [width |-> cfg.width, height |-> cfg.height]
Contains(s, x) == \E i \in 1..Len(s) : s[i] = x
Count(s, x) == Cardinality({i \in 1..Len(s) : s[i] = x})
Last(s) == s[Len(s)]

ZeroSize == [width |-> 0, height |-> 0]
NoConfig == [usage |-> "none", format |-> "none", width |-> 0, height |-> 0,
             present_mode |-> "none", alpha_mode |-> "none"]
Uninitialized == [surface |-> NoConfig, config |-> NoConfig, size |-> ZeroSize]
NoEvent == [kind |-> "none"]
NotLost == [active |-> FALSE, stored |-> ZeroSize, at |-> 0, cfgs |-> <<>>]

----------------------------------------------------------------------------
\* struct State and its methods.  A context c carries the struct, the
\* closure's captured control_flow and redraw request, and the call records.

\* surface.configure(&device, &config)
configure(c) ==
  [c EXCEPT !.state.surface = c.state.config,
            !.calls = Append(@, "configure")]

\* new building the configuration with width and height exchanged
new_Swapped(size, format) ==
  LET config == [usage |-> "RENDER_ATTACHMENT", format |-> format,
                 width |-> size.height, height |-> size.width,
                 present_mode |-> "Fifo", alpha_mode |-> "Auto"]
  IN [surface |-> config, config |-> config, size |-> size]

\* State::new after both acquisitions succeeded
new(size, format) ==
  LET config == [usage |-> "RENDER_ATTACHMENT", format |-> format,
                 width |-> size.width, height |-> size.height,
                 present_mode |-> "Fifo", alpha_mode |-> "Auto"]
  IN [surface |-> config, config |-> config, size |-> size]

\* resize that forgets config.height
resize_NoHeight(c, new_size) ==
  LET c1 == [c EXCEPT !.calls = Append(@, "resize"),
                      !.log = Append(@, new_size)]
  IN IF new_size.width > 0 /\ new_size.height > 0
     THEN configure([c1 EXCEPT !.state.size = new_size,
                               !.state.config.width = new_size.width])
     ELSE c1

\* resize whose guard accepts a size with one positive dimension
resize_AnyDim(c, new_size) ==
  LET c1 == [c EXCEPT !.calls = Append(@, "resize"),
                      !.log = Append(@, new_size)]
  IN IF new_size.width > 0 \/ new_size.height > 0
     THEN configure([c1 EXCEPT !.state.size = new_size,
                               !.state.config.width = new_size.width,
                               !.state.config.height = new_size.height])
     ELSE c1

\* resize that stores the requested width before it tests the size
resize_WidthFirst(c, new_size) ==
  LET c1 == [c EXCEPT !.calls = Append(@, "resize"),
                      !.log = Append(@, new_size),
                      !.state.config.width = new_size.width]
  IN IF new_size.width > 0 /\ new_size.height > 0
     THEN configure([c1 EXCEPT !.state.size = new_size,
                               !.state.config.height = new_size.height])
     ELSE c1

\* resize that builds the configuration anew, with the default present mode
resize_Rebuilds(c, new_size) ==
  LET c1 == [c EXCEPT !.calls = Append(@, "resize"),
                      !.log = Append(@, new_size)]
  IN IF new_size.width > 0 /\ new_size.height > 0
     THEN configure([c1 EXCEPT !.state.size = new_size,
                               !.state.config.width = new_size.width,
                               !.state.config.height = new_size.height,
                               !.state.config.present_mode = "Immediate"])
     ELSE c1

\* State::resize
resize(c, new_size) ==
  LET c1 == [c EXCEPT !.calls = Append(@, "resize"),
                      !.log = Append(@, new_size)]
  IN IF new_size.width > 0 /\ new_size.height > 0
     THEN configure([c1 EXCEPT !.state.size = new_size,
                               !.state.config.width = new_size.width,
                               !.state.config.height = new_size.height])
     ELSE c1

\* input that reports every event as handled
input_Handled(c, ev) == TRUE

\* State::input
input(c, ev) == FALSE

\* State::update
update(c) == [c EXCEPT !.calls = Append(@, "update")]

\* render that goes on to submit and present after a failed acquisition
render_ErrorSwallowed(c, outcome) ==
  [c EXCEPT !.calls = @ \o <<"render", "get_current_texture", "submit", "present">>,
            !.rendered = outcome]

\* State::render; outcome is what surface.get_current_texture() yields
render(c, outcome) ==
  LET c1 == [c EXCEPT !.calls = @ \o <<"render", "get_current_texture">>,
                      !.rendered = outcome]
  IN IF outcome = "Ok"
     THEN [c1 EXCEPT !.calls = @ \o <<"submit", "present">>]
     ELSE c1

----------------------------------------------------------------------------
\* Events

CloseRequested(id) == [kind |-> "WindowEvent", window_id |-> id, event |-> "CloseRequested"]
KeyboardInput(id, st, key) ==
  [kind |-> "WindowEvent", window_id |-> id, event |-> "KeyboardInput",
   state |-> st, virtual_keycode |-> key]
Resized(id, sz) ==
  [kind |-> "WindowEvent", window_id |-> id, event |-> "Resized", size |-> sz]
ScaleFactorChanged(id, sz) ==
  [kind |-> "WindowEvent", window_id |-> id, event |-> "ScaleFactorChanged",
   size |-> sz]
Focused(id) == [kind |-> "WindowEvent", window_id |-> id, event |-> "Focused"]
RedrawRequested(id) == [kind |-> "RedrawRequested", window_id |-> id]
MainEventsCleared == [kind |-> "MainEventsCleared"]
RedrawEventsCleared == [kind |-> "RedrawEventsCleared"]
NewEvents == [kind |-> "NewEvents"]
LoopDestroyed == [kind |-> "LoopDestroyed"]

ElementState == {"Pressed", "Released"}
VirtualKeyCode == {"Escape", "A"}

\* Sizes carried by the events of a window: every size for the program's
\* window, one size for a window that is not the program's.
EventSizes(id) ==
  IF id = window THEN PhysicalSize ELSE {[width |-> MaxDim, height |-> MaxDim]}

WindowEvents ==
  UNION {
    {CloseRequested(id), Focused(id)}
      \cup {KeyboardInput(id, st, key) : st \in ElementState, key \in VirtualKeyCode}
      \cup {Resized(id, sz) : sz \in EventSizes(id)}
      \cup {ScaleFactorChanged(id, sz) : sz \in EventSizes(id)}
    : id \in WindowIds }

\* the exit pattern without the test of the key's state
IsExitEvent_AnyState(ev) ==
  \/ ev.event = "CloseRequested"
  \/ /\ ev.event = "KeyboardInput"
     /\ ev.virtual_keycode = "Escape"

IsExitEvent(ev) ==
  \/ ev.event = "CloseRequested"
  \/ /\ ev.event = "KeyboardInput"
     /\ ev.state = "Pressed"
     /\ ev.virtual_keycode = "Escape"

\* the match of the WindowEvent arm without the ScaleFactorChanged arm
window_event_NoScale(c, ev) ==
  IF IsExitEvent(ev) THEN [c EXCEPT !.control_flow = "Exit"]
  ELSE IF ev.event = "Resized" THEN resize(c, ev.size)
  ELSE c

\* the match of the WindowEvent arm
window_event(c, ev) ==
  IF IsExitEvent(ev) THEN [c EXCEPT !.control_flow = "Exit"]
  ELSE IF ev.event = "Resized" THEN resize(c, ev.size)
  ELSE IF ev.event = "ScaleFactorChanged" THEN resize(c, ev.size)
  ELSE c

\* the RedrawRequested arm rendering before it updates
redraw_RenderFirst(c, outcome) ==
  LET c2 == update(render(c, outcome))
  IN CASE outcome = "Ok" -> c2
       [] outcome = "Lost" -> resize(c2, c2.state.size)
       [] outcome = "OutOfMemory" -> [c2 EXCEPT !.control_flow = "Exit"]
       [] OTHER -> [c2 EXCEPT !.calls = Append(@, "eprintln")]

\* the RedrawRequested arm without the Lost arm's resize
redraw_LostIgnored(c, outcome) ==
  LET c2 == render(update(c), outcome)
  IN CASE outcome = "Ok" -> c2
       [] outcome = "Lost" -> c2
       [] outcome = "OutOfMemory" -> [c2 EXCEPT !.control_flow = "Exit"]
       [] OTHER -> [c2 EXCEPT !.calls = Append(@, "eprintln")]

\* the RedrawRequested arm with OutOfMemory only logged
redraw_OomLogged(c, outcome) ==
  LET c2 == render(update(c), outcome)
  IN CASE outcome = "Ok" -> c2
       [] outcome = "Lost" -> resize(c2, c2.state.size)
       [] OTHER -> [c2 EXCEPT !.calls = Append(@, "eprintln")]

\* the RedrawRequested arm with every error but Lost ending the loop
redraw_ErrorsExit(c, outcome) ==
  LET c2 == render(update(c), outcome)
  IN CASE outcome = "Ok" -> c2
       [] outcome = "Lost" -> resize(c2, c2.state.size)
       [] OTHER -> [c2 EXCEPT !.control_flow = "Exit"]

\* the match on state.render() of the RedrawRequested arm
redraw(c, outcome) ==
  LET c2 == render(update(c), outcome)
  IN CASE outcome = "Ok" -> c2
       [] outcome = "Lost" -> resize(c2, c2.state.size)
       [] outcome = "OutOfMemory" -> [c2 EXCEPT !.control_flow = "Exit"]
       [] OTHER -> [c2 EXCEPT !.calls = Append(@, "eprintln")]

\* the closure without the window_id guards
closure_AnyWindow(c, ev, outcome) ==
  IF ev.kind = "WindowEvent"
  THEN IF ~input(c, ev) THEN window_event(c, ev) ELSE c
  ELSE IF ev.kind = "RedrawRequested"
  THEN redraw(c, outcome)
  ELSE IF ev.kind = "MainEventsCleared"
  THEN [c EXCEPT !.redraw_requested = TRUE,
                 !.calls = Append(@, "request_redraw")]
  ELSE c

\* the closure without the request_redraw of the MainEventsCleared arm
closure_NoRequest(c, ev, outcome) ==
  IF ev.kind = "WindowEvent" /\ ev.window_id = window
  THEN IF ~input(c, ev) THEN window_event(c, ev) ELSE c
  ELSE IF ev.kind = "RedrawRequested" /\ ev.window_id = window
  THEN redraw(c, outcome)
  ELSE c

\* the closure passed to event_loop.run
closure(c, ev, outcome) ==
  IF ev.kind = "WindowEvent" /\ ev.window_id = window
  THEN IF ~input(c, ev) THEN window_event(c, ev) ELSE c
  ELSE IF ev.kind = "RedrawRequested" /\ ev.window_id = window
  THEN redraw(c, outcome)
  ELSE IF ev.kind = "MainEventsCleared"
  THEN [c EXCEPT !.redraw_requested = TRUE,
                 !.calls = Append(@, "request_redraw")]
  ELSE c

----------------------------------------------------------------------------
\* The state machine

Init ==
  /\ pc = "start"
  /\ adapter = "unrequested"
  /\ device = "unrequested"
  /\ state = Uninitialized
  /\ control_flow = "Poll"
  /\ redraw_requested = FALSE
  /\ stage = "events"
  /\ exit_status = NotExited
  /\ event = NoEvent
  /\ rendered = "none"
  /\ calls = <<>>
  /\ initial_size = ZeroSize
  /\ resizeLog = <<>>
  /\ out_of_memory = FALSE
  /\ sinceLost = NotLost

Context ==
  [state |-> state, control_flow |-> control_flow,
   redraw_requested |-> redraw_requested, calls |-> <<>>,
   log |-> resizeLog, rendered |-> "none"]

\* the configurations the surface received in a step, as sizes
Configured(c) ==
  [i \in 1..Count(c.calls, "configure") |-> ConfigSize(c.state.surface)]

\* the closure called whether or not State::new has completed
Dispatch_BeforeNew(ev, outcome, recording) ==
  \E c \in {closure(Context, ev, outcome)} :
  LET attempted == c.rendered # "none"
  IN /\ pc \in {"start", "loop"}
     /\ recording => Len(c.log) <= MaxResizes
     /\ state' = c.state
     /\ control_flow' = c.control_flow
     /\ redraw_requested' =
          IF attempted THEN FALSE ELSE c.redraw_requested
     /\ event' = ev
     /\ rendered' = c.rendered
     /\ calls' = c.calls
     /\ resizeLog' = IF recording THEN c.log ELSE resizeLog
     /\ out_of_memory' = (out_of_memory \/ c.rendered = "OutOfMemory")
     /\ UNCHANGED <<pc, adapter, device, exit_status, initial_size, sinceLost>>

\* One call of the closure with event ev (outcome: what render would get).
\* With recording, the history of resize calls and of configurations since a
\* Lost render is kept, and the run makes at most MaxResizes resize calls;
\* without, no history is kept and resize calls are unbounded.
Dispatch(ev, outcome, recording) ==
  \E c \in {closure(Context, ev, outcome)} :
  LET attempted == c.rendered # "none"
      base == IF attempted THEN NotLost ELSE sinceLost
  IN /\ pc = "loop"
     /\ recording => Len(c.log) <= MaxResizes
     /\ state' = c.state
     /\ control_flow' = c.control_flow
     /\ redraw_requested' =
          IF attempted THEN FALSE ELSE c.redraw_requested
     /\ event' = ev
     /\ rendered' = c.rendered
     /\ calls' = c.calls
     /\ resizeLog' = IF recording THEN c.log ELSE resizeLog
     /\ out_of_memory' = (out_of_memory \/ c.rendered = "OutOfMemory")
     /\ sinceLost' =
          IF ~recording THEN sinceLost
          ELSE IF c.rendered = "Lost"
          THEN [active |-> TRUE, stored |-> state.size, at |-> Len(c.log),
                cfgs |-> Configured(c)]
          ELSE IF base.active
          THEN [base EXCEPT !.cfgs = @ \o Configured(c)]
          ELSE base
     /\ UNCHANGED <<pc, adapter, device, exit_status, initial_size>>

\* State::new configuring the surface before the acquisitions are unwrapped
New_ConfiguresEarly ==
  /\ pc = "start"
  /\ \E size \in PhysicalSize, a \in {"Some", "None"}, d \in {"Ok", "Err"} :
       /\ initial_size' = size
       /\ adapter' = a
       /\ device' = IF a = "Some" THEN d ELSE "unrequested"
       /\ state' = new(size, SupportedFormat)
       /\ calls' = <<"configure">>
       /\ IF a = "Some" /\ d = "Ok"
          THEN /\ pc' = "loop"
               /\ exit_status' = NotExited
          ELSE /\ pc' = "panicked"
               /\ exit_status' = PanicStatus
  /\ UNCHANGED <<control_flow, redraw_requested, stage, event, rendered,
                 resizeLog, out_of_memory, sinceLost>>

\* State::new going on after a failed request_device
New_DeviceErrIgnored ==
  /\ pc = "start"
  /\ \E size \in PhysicalSize, a \in {"Some", "None"}, d \in {"Ok", "Err"} :
       /\ initial_size' = size
       /\ adapter' = a
       /\ device' = IF a = "Some" THEN d ELSE "unrequested"
       /\ IF a = "Some"
          THEN /\ state' = new(size, SupportedFormat)
               /\ calls' = <<"configure">>
               /\ pc' = "loop"
               /\ exit_status' = NotExited
          ELSE /\ state' = state
               /\ calls' = <<>>
               /\ pc' = "panicked"
               /\ exit_status' = PanicStatus
  /\ UNCHANGED <<control_flow, redraw_requested, stage, event, rendered,
                 resizeLog, out_of_memory, sinceLost>>

\* run(): window creation and State::new(&window).await
New ==
  /\ pc = "start"
  /\ \E size \in PhysicalSize, a \in {"Some", "None"}, d \in {"Ok", "Err"} :
       /\ initial_size' = size
       /\ adapter' = a
       /\ device' = IF a = "Some" THEN d ELSE "unrequested"
       /\ IF a = "Some" /\ d = "Ok"
          THEN /\ state' = new(size, SupportedFormat)
               /\ calls' = <<"configure">>
               /\ pc' = "loop"
               /\ exit_status' = NotExited
          ELSE /\ state' = state
               /\ calls' = <<>>
               /\ pc' = "panicked"
               /\ exit_status' = PanicStatus
  /\ UNCHANGED <<control_flow, redraw_requested, stage, event, rendered,
                 resizeLog, out_of_memory, sinceLost>>

\* a window event (or the iteration's NewEvents) is delivered
DeliverWindowEvent(recording) ==
  /\ stage = "events"
  /\ \E ev \in WindowEvents \cup {NewEvents} : Dispatch(ev, "Ok", recording)
  /\ UNCHANGED stage

DeliverMainEventsCleared(recording) ==
  /\ stage = "events"
  /\ Dispatch(MainEventsCleared, "Ok", recording)
  /\ stage' = "redraw"

\* the redraw the window asked for; at most one per iteration
DeliverRedrawRequested(recording) ==
  /\ stage = "redraw"
  /\ redraw_requested
  /\ \E outcome \in RenderResult :
        Dispatch(RedrawRequested(window), outcome, recording)
  /\ UNCHANGED stage

\* a redraw of a window that is not ours
DeliverForeignRedraw(recording) ==
  /\ stage = "redraw"
  /\ \E id \in WindowIds \ {window} :
        Dispatch(RedrawRequested(id), "Ok", recording)
  /\ UNCHANGED stage

\* end of the iteration; the loop goes on unless Exit was set
DeliverRedrawEventsCleared(recording) ==
  /\ stage = "redraw"
  /\ ~redraw_requested
  /\ Dispatch(RedrawEventsCleared, "Ok", recording)
  /\ stage' = IF control_flow = "Exit" THEN "destroy" ELSE "events"

\* ControlFlow::Exit: LoopDestroyed is sent and the process exits
DeliverLoopDestroyed ==
  /\ pc = "loop"
  /\ control_flow = "Exit"
  /\ event' = LoopDestroyed
  /\ calls' = closure(Context, LoopDestroyed, "Ok").calls
  /\ rendered' = "none"
  /\ pc' = "exited"
  /\ exit_status' = ExitSuccess
  /\ UNCHANGED <<adapter, device, state, control_flow, redraw_requested, stage,
                 initial_size, resizeLog, out_of_memory, sinceLost>>

Next ==
  \/ New
  \/ DeliverWindowEvent(TRUE)
  \/ DeliverMainEventsCleared(TRUE)
  \/ DeliverRedrawRequested(TRUE)
  \/ DeliverForeignRedraw(TRUE)
  \/ DeliverRedrawEventsCleared(TRUE)
  \/ DeliverLoopDestroyed

Spec == Init /\ [][Next]_vars

\* The same run without the histories, so with any number of resize calls.
LiveNext ==
  \/ New
  \/ DeliverWindowEvent(FALSE)
  \/ DeliverMainEventsCleared(FALSE)
  \/ DeliverRedrawRequested(FALSE)
  \/ DeliverForeignRedraw(FALSE)
  \/ DeliverRedrawEventsCleared(FALSE)
  \/ DeliverLoopDestroyed

\* The platform keeps delivering MainEventsCleared, honours redraw requests
\* and ends its iterations; run() goes on to State::new.
LiveSpec ==
  /\ Init
  /\ [][LiveNext]_vars
  /\ WF_vars(New)
  /\ WF_vars(DeliverMainEventsCleared(FALSE))
  /\ WF_vars(DeliverRedrawRequested(FALSE))
  /\ WF_vars(DeliverRedrawEventsCleared(FALSE))
  /\ WF_vars(DeliverLoopDestroyed)

----------------------------------------------------------------------------
\* Properties

Initialized == pc \in {"loop", "exited"}

ResizeCalled == Contains(calls, "resize")

OwnWindowEvent(ev, kinds) ==
  /\ ev.kind = "WindowEvent"
  /\ ev.window_id = window
  /\ ev.event \in kinds

OwnExitEvent(ev) ==
  /\ OwnWindowEvent(ev, {"CloseRequested", "KeyboardInput"})
  /\ \/ ev.event = "CloseRequested"
     \/ ev.state = "Pressed" /\ ev.virtual_keycode = "Escape"

\* the last element of log with both dimensions positive, or initial
RECURSIVE LastValid(_, _)
LastValid(log, initial) ==
  IF log = <<>> THEN initial
  ELSE IF Positive(Last(log)) THEN Last(log)
  ELSE LastValid(SubSeq(log, 1, Len(log) - 1), initial)

----------------------------------------------------------------------------
\* C1: once State::new has completed, the stored configuration's width and
\* height are both strictly positive, whatever the initial window size and
\* whatever events follow.
C1_ConfigPositive ==
  Initialized => state.config.width > 0 /\ state.config.height > 0

\* C2: a resize call with both dimensions positive leaves the stored size and
\* the configuration's width and height equal to the requested size, and
\* configures the surface exactly once, with the updated configuration.
C2_ResizeApplies ==
  (ResizeCalled /\ Positive(Last(resizeLog))) =>
    /\ state.size = Last(resizeLog)
    /\ ConfigSize(state.config) = Last(resizeLog)
    /\ Count(calls, "configure") = 1
    /\ Count(calls, "resize") = 1
    /\ Last(calls) = "configure"
    /\ state.surface = state.config

\* a window resize to a positive size other than the initial one was applied
C2_Witness ==
  /\ OwnWindowEvent(event, {"Resized"})
  /\ Positive(event.size)
  /\ event.size # initial_size
  /\ Len(resizeLog) = 1
  /\ state.size = event.size
  /\ ConfigSize(state.surface) = event.size

\* C3: a resize call with a zero width or a zero height leaves the stored
\* configuration, the stored size and the surface as they were and issues no
\* surface configuration.
C3_ZeroResizeIgnored ==
  [][(Len(resizeLog') = Len(resizeLog) + 1 /\ ~Positive(Last(resizeLog')))
       => (state' = state /\ ~Contains(calls', "configure"))]_vars

\* a zero-height resize arrived at a context holding a positive size
C3_Witness ==
  /\ OwnWindowEvent(event, {"Resized", "ScaleFactorChanged"})
  /\ event.size.width > 0
  /\ event.size.height = 0
  /\ Last(resizeLog) = event.size
  /\ Positive(state.size)
  /\ ConfigSize(state.config) = state.size

----------------------------------------------------------------------------
\* a render call was made in the step that led to the state
RenderAttempted == rendered # "none"

\* the configurations due between a Lost render and the next render: the one
\* of the Lost arm's resize (none if the stored size has a zero dimension),
\* then one for every later resize call with a positive size
DueSinceLost ==
  (IF Positive(sinceLost.stored) THEN <<sinceLost.stored>> ELSE <<>>)
    \o SelectSeq(SubSeq(resizeLog, sinceLost.at + 1, Len(resizeLog)), Positive)

\* C5 as stated: after a render that returned Lost, exactly one surface
\* configuration precedes the next render attempt, and it uses the stored
\* size, whatever window events come between the two redraws.
C5_ExactlyOneReconfigure ==
  [][(sinceLost.active /\ rendered' # "none")
       => sinceLost.cfgs = <<sinceLost.stored>>]_vars

\* C5 as amended: the step of a render that returned Lost calls resize once
\* with the stored size, which configures the surface once with that size
\* when both its dimensions are positive and not at all otherwise; up to the
\* next render attempt the only further configurations are those of resize
\* calls with a positive size, one each.
C5_LostReconfigures ==
  /\ rendered = "Lost" =>
       /\ sinceLost.active
       /\ calls = <<"update", "render", "get_current_texture", "resize">>
                    \o (IF Positive(sinceLost.stored)
                        THEN <<"configure">> ELSE <<>>)
       /\ resizeLog # <<>>
       /\ Last(resizeLog) = sinceLost.stored
       /\ state.size = sinceLost.stored
       /\ Positive(sinceLost.stored) =>
             /\ state.surface = state.config
             /\ ConfigSize(state.surface) = sinceLost.stored
  /\ sinceLost.active => sinceLost.cfgs = DueSinceLost

\* a Lost render, then a window resize before the next redraw: two
\* configurations are in place when the next render comes
C5_Witness ==
  /\ sinceLost.active
  /\ Len(sinceLost.cfgs) = 2
  /\ sinceLost.cfgs[1] = sinceLost.stored
  /\ OwnWindowEvent(event, {"Resized", "ScaleFactorChanged"})
  /\ stage = "events"

\* C6: a render call that returns OutOfMemory sets ControlFlow::Exit in the
\* same step, and no render call is made afterwards.
C6_OutOfMemoryEnds ==
  /\ [](rendered = "OutOfMemory" => control_flow = "Exit")
  /\ [][out_of_memory => rendered' = "none"]_vars

\* the run ended after an OutOfMemory render
C6_Witness ==
  /\ out_of_memory
  /\ pc = "exited"
  /\ control_flow = "Exit"

\* C7: CloseRequested, and KeyboardInput with Escape pressed, for the
\* program's window set ControlFlow::Exit and leave the stored size, the
\* configuration and the surface as they were.
C7_ExitEvents ==
  /\ [](OwnExitEvent(event) => control_flow = "Exit")
  /\ [][OwnExitEvent(event') =>
          (state' = state /\ calls' = <<>> /\ resizeLog' = resizeLog)]_vars

\* Escape was pressed in a loop that had not been told to exit before
C7_Witness ==
  /\ OwnExitEvent(event)
  /\ event.event = "KeyboardInput"
  /\ control_flow = "Exit"
  /\ pc = "loop"
  /\ Positive(state.size)
  /\ ~out_of_memory

C9_TransientErrors ==
  /\ [][rendered' \in {"Outdated", "Timeout"} =>
          /\ control_flow' = control_flow
          /\ state' = state
          /\ resizeLog' = resizeLog
          /\ pc' = "loop"
          /\ calls' = <<"update", "render", "get_current_texture", "eprintln">>]_vars
  /\ [](event = RedrawRequested(window) =>
          (RenderAttempted /\ Contains(calls, "render")))

\* a Timeout in a loop that goes on
C9_Witness ==
  /\ rendered = "Timeout"
  /\ event = RedrawRequested(window)
  /\ control_flow = "Poll"
  /\ pc = "loop"
  /\ Positive(state.size)

\* C10: every MainEventsCleared requests a redraw, so with a platform that
\* keeps delivering MainEventsCleared and honours the requests, render is
\* attempted again and again unless the loop has been told to exit (or
\* startup failed).
C10_KeepsRendering ==
  /\ []((pc = "loop" /\ event = MainEventsCleared) => redraw_requested)
  /\ \/ []<>RenderAttempted
     \/ <>(control_flow = "Exit" \/ pc = "panicked")

\* a render in an iteration that followed a resize, the loop going on
C10_Witness ==
  /\ rendered = "Ok"
  /\ event = RedrawRequested(window)
  /\ control_flow = "Poll"
  /\ pc = "loop"
  /\ stage = "redraw"
  /\ ~redraw_requested
  /\ state.size # initial_size

----------------------------------------------------------------------------
\* C11: when adapter or device acquisition fails in State::new the process
\* ends at once: nothing is requested again, the surface is never
\* configured, the closure is never called, and no resize or render call is
\* ever made.
C11_SetupFailureIsFatal ==
  (adapter = "None" \/ device = "Err") =>
    /\ pc = "panicked"
    /\ exit_status = PanicStatus
    /\ adapter = "None" => device = "unrequested"
    /\ state = Uninitialized
    /\ event = NoEvent
    /\ calls = <<>>
    /\ rendered = "none"
    /\ resizeLog = <<>>
    /\ control_flow = "Poll"
    /\ ~redraw_requested

\* the adapter was acquired, the device was not
C11_Witness ==
  /\ adapter = "Some"
  /\ device = "Err"
  /\ pc = "panicked"

\* the Render Context is ready: State::new has returned the struct
Ready == state # Uninitialized

\* C12: the Render Context becomes ready once, when State::new completes
\* with the surface configured, and stays ready; the closure runs, and
\* resize, update and render are called, only on a ready context.
C12_ReadyOnce ==
  /\ [](Ready <=> Initialized)
  /\ [](~Ready => (event = NoEvent /\ calls = <<>> /\ rendered = "none"
                    /\ resizeLog = <<>>))
  /\ [](Ready => state.surface.usage = "RENDER_ATTACHMENT")
  /\ [][(~Ready /\ Ready') =>
          /\ pc = "start"
          /\ calls' = <<"configure">>
          /\ state'.surface = state'.config
          /\ ConfigSize(state'.config) = initial_size'
          /\ state'.size = initial_size'
          /\ event' = NoEvent]_vars
  /\ [][Ready => Ready']_vars
  /\ [][pc # "start" => pc' # "start"]_vars

\* a ready context that has rendered and been resized
C12_Witness ==
  /\ Ready
  /\ pc = "loop"
  /\ rendered = "Ok"
  /\ resizeLog # <<>>
  /\ state.size # initial_size

----------------------------------------------------------------------------
\* the calls by which the RedrawRequested arm acts on the result of render
Classifying == {"resize", "configure", "eprintln"}

\* C13: a RedrawRequested for the program's window calls update once, then
\* render once, and acts on the result of render only after render has
\* returned; update changes nothing.
C13_UpdateThenRender ==
  /\ event = RedrawRequested(window) =>
       /\ Count(calls, "update") = 1
       /\ Count(calls, "render") = 1
       /\ Len(calls) >= 3
       /\ SubSeq(calls, 1, 3) = <<"update", "render", "get_current_texture">>
       /\ \A i \in 1..Len(calls) :
            calls[i] \in Classifying =>
              /\ i > 3
              /\ \A j \in i..Len(calls) : calls[j] \in Classifying
       /\ RenderAttempted
  /\ Ready =>
       /\ update(Context).state = state
       /\ update(Context).control_flow = control_flow
       /\ update(Context).redraw_requested = redraw_requested
       /\ update(Context).log = resizeLog
       /\ update(Context).rendered = "none"

\* a redraw whose render returned Lost, acted upon after render
C13_Witness ==
  /\ event = RedrawRequested(window)
  /\ rendered = "Lost"
  /\ calls = <<"update", "render", "get_current_texture", "resize", "configure">>

\* C14: a render call whose get_current_texture fails returns that error
\* without submitting or presenting; one that succeeds submits once, then
\* presents once, then returns Ok; either way render leaves the stored size,
\* the configuration and the surface as they were.
C14_RenderResult ==
  /\ rendered \in SurfaceError =>
       /\ ~Contains(calls, "submit")
       /\ ~Contains(calls, "present")
       /\ Count(calls, "get_current_texture") = 1
  /\ rendered = "Ok" =>
       calls = <<"update", "render", "get_current_texture", "submit", "present">>
  /\ Ready =>
       \A outcome \in RenderResult :
         /\ render(Context, outcome).rendered = outcome
         /\ render(Context, outcome).state = state
         /\ render(Context, outcome).control_flow = control_flow
         /\ render(Context, outcome).log = resizeLog

\* a failed acquisition after a frame was presented at another size
C14_Witness ==
  /\ rendered = "Timeout"
  /\ calls = <<"update", "render", "get_current_texture", "eprintln">>
  /\ Positive(state.size)
  /\ state.size # initial_size

----------------------------------------------------------------------------
\* C15: a Resized(size) and a ScaleFactorChanged(new_inner_size) event for
\* the program's window each make exactly one resize call, with that size,
\* so that the zero test and the configuration of resize apply to both alike.
C15_ResizeForwarded ==
  OwnWindowEvent(event, {"Resized", "ScaleFactorChanged"}) =>
    /\ Count(calls, "resize") = 1
    /\ calls[1] = "resize"
    /\ resizeLog # <<>>
    /\ Last(resizeLog) = event.size
    /\ IF Positive(event.size)
       THEN /\ calls = <<"resize", "configure">>
            /\ state.size = event.size
            /\ ConfigSize(state.surface) = event.size
       ELSE /\ calls = <<"resize">>
            /\ ConfigSize(state.config) =
                 LastValid(SubSeq(resizeLog, 1, Len(resizeLog) - 1), initial_size)

\* a scale-factor change to a positive size other than the initial one
C15_Witness ==
  /\ OwnWindowEvent(event, {"ScaleFactorChanged"})
  /\ Positive(event.size)
  /\ event.size # initial_size
  /\ state.size = event.size
  /\ calls = <<"resize", "configure">>

\* C16: the stored size and the configuration's width and height are equal
\* in every state of an initialized Render Context, and the resize with the
\* stored size made after a Lost render changes neither.
C16_SizeMatchesConfig ==
  /\ Initialized => ConfigSize(state.config) = state.size
  /\ rendered = "Lost" =>
       /\ state.size = sinceLost.stored
       /\ ConfigSize(state.config) = sinceLost.stored

\* a Lost render on a context that was resized to a positive size
C16_Witness ==
  /\ rendered = "Lost"
  /\ Positive(state.size)
  /\ state.size # initial_size
  /\ ConfigSize(state.config) = state.size
  /\ ResizeCalled

----------------------------------------------------------------------------
\* C17: ControlFlow::Exit is set only by CloseRequested, by KeyboardInput
\* with Escape pressed (both for the program's window) and by a render call
\* that returns OutOfMemory; no other event sets it, and once set it stays.
C17_ExitOnlyByThree ==
  /\ [][control_flow' # control_flow =>
          /\ control_flow = "Poll"
          /\ control_flow' = "Exit"
          /\ \/ OwnExitEvent(event')
             \/ event' = RedrawRequested(window) /\ rendered' = "OutOfMemory"]_vars
  /\ [][control_flow = "Exit" => control_flow' = "Exit"]_vars
  /\ [](pc \in {"start", "panicked"} => control_flow = "Poll")

\* Escape was released, after a Lost render, and the loop goes on
C17_Witness ==
  /\ event = KeyboardInput(window, "Released", "Escape")
  /\ control_flow = "Poll"
  /\ pc = "loop"
  /\ sinceLost.active

\* the configuration State::new built from the initial window size
InitialConfig == new(initial_size, SupportedFormat).config

\* C18: format, usage, present mode (Fifo) and alpha mode of the
\* configuration are those set by State::new; only width and height ever
\* change, in the stored configuration and in the one the surface holds.
C18_ConfigFieldsFixed ==
  Initialized =>
    /\ state.config.present_mode = "Fifo"
    /\ \A cfg \in {state.config, state.surface} :
         /\ cfg.format = InitialConfig.format
         /\ cfg.usage = InitialConfig.usage
         /\ cfg.present_mode = InitialConfig.present_mode
         /\ cfg.alpha_mode = InitialConfig.alpha_mode
         /\ DOMAIN cfg = DOMAIN InitialConfig

\* a context resized away from its initial size, then rendered
C18_Witness ==
  /\ Initialized
  /\ Positive(state.size)
  /\ state.size # initial_size
  /\ ConfigSize(state.surface) = state.size
  /\ rendered = "Ok"
  /\ state.config.format = SupportedFormat

\* events the closure has no arm for: those of another window, and kinds
\* that fall to the catch-all arms
Unhandled(ev) ==
  \/ ev.kind \in {"WindowEvent", "RedrawRequested"} /\ ev.window_id # window
  \/ ev.kind \in {"NewEvents", "RedrawEventsCleared", "LoopDestroyed"}
  \/ OwnWindowEvent(ev, {"Focused"})
  \/ /\ OwnWindowEvent(ev, {"KeyboardInput"})
     /\ ~(ev.state = "Pressed" /\ ev.virtual_keycode = "Escape")

\* C19: a window event or a RedrawRequested for another window, and any
\* event kind the closure has no arm for, is ignored: no resize, update or
\* render call, the stored size, configuration and surface unchanged,
\* ControlFlow as it was.
C19_OthersIgnored ==
  [][Unhandled(event') =>
       /\ calls' = <<>>
       /\ rendered' = "none"
       /\ state' = state
       /\ control_flow' = control_flow
       /\ redraw_requested' = redraw_requested
       /\ resizeLog' = resizeLog]_vars

\* another window was asked to close; ours goes on
C19_Witness ==
  /\ event = CloseRequested("other")
  /\ control_flow = "Poll"
  /\ pc = "loop"
  /\ calls = <<>>

====
